---- MODULE Spec2Model ----
(***************************************************************************)
(* The /lastmatch command of bot.py: four dependent calls to the Riot API  *)
(* (get_puuid, get_last_competitive_match_id, get_match_details,           *)
(* get_current_rank), the aggregation of the caller's own stat line into   *)
(* an embed, and the three except clauses that turn every exception into   *)
(* one follow-up message.  Each invocation is a coroutine that suspends at *)
(* every network call; invocations interleave at those points.             *)
(***************************************************************************)
EXTENDS Integers, Sequences, FiniteSets, TLC

VARIABLES inv, riot

vars == <<inv, riot>>

(* ----------------------------- bounds ---------------------------------- *)

\* How far beyond both ends of the tier table the remote tier may lie.
TierSlack == 2

(* ------------------------- tier table (l.27-54) ------------------------ *)

TIER_MAP ==
    0 :> "Unrated" @@ 1 :> "Iron 1" @@ 2 :> "Iron 2" @@ 3 :> "Iron 3" @@
    4 :> "Bronze 1" @@ 5 :> "Bronze 2" @@ 6 :> "Bronze 3" @@
    7 :> "Silver 1" @@ 8 :> "Silver 2" @@ 9 :> "Silver 3" @@
    10 :> "Gold 1" @@ 11 :> "Gold 2" @@ 12 :> "Gold 3" @@
    13 :> "Platinum 1" @@ 14 :> "Platinum 2" @@ 15 :> "Platinum 3" @@
    16 :> "Diamond 1" @@ 17 :> "Diamond 2" @@ 18 :> "Diamond 3" @@
    19 :> "Ascendant 1" @@ 20 :> "Ascendant 2" @@ 21 :> "Ascendant 3" @@
    22 :> "Immortal 1" @@ 23 :> "Immortal 2" @@ 24 :> "Immortal 3" @@
    25 :> "Radiant"

\* A lookup that forgets the default and the table's last row.
TierLabelNoRadiant(t) ==
    IF t \in 0..24 THEN TIER_MAP[t] ELSE "Unknown"

\* TIER_MAP.get(t, "Unknown")
TierLabel(t) ==
    IF t \in DOMAIN TIER_MAP THEN TIER_MAP[t] ELSE "Unknown"

(* ---------------------------- JSON values ------------------------------ *)

JNum(n) == [t |-> "num", n |-> n, s |-> "", b |-> FALSE]
JStr(s) == [t |-> "str", n |-> 0, s |-> s, b |-> FALSE]
JBool(b) == [t |-> "bool", n |-> 0, s |-> "", b |-> b]

\* Python truthiness of a decoded JSON value (l.157, l.161).
Truthy(v) ==
    CASE v.t = "num" -> v.n # 0
      [] v.t = "str" -> v.s # ""
      [] OTHER -> v.b

\* str(v) of a decoded JSON value (l.167).
Str(v) ==
    CASE v.t = "num" -> ToString(v.n)
      [] v.t = "str" -> v.s
      [] OTHER -> IF v.b THEN "True" ELSE "False"

(* ------------------- field names: replace and title -------------------- *)

LowerCase ==
    <<"a","b","c","d","e","f","g","h","i","j","k","l","m",
      "n","o","p","q","r","s","t","u","v","w","x","y","z">>

UpperCase ==
    <<"A","B","C","D","E","F","G","H","I","J","K","L","M",
      "N","O","P","Q","R","S","T","U","V","W","X","Y","Z">>

IndexIn(c, alphabet) ==
    CHOOSE j \in 1..Len(alphabet) : alphabet[j] = c

IsLower(c) == \E j \in 1..Len(LowerCase) : LowerCase[j] = c
IsUpper(c) == \E j \in 1..Len(UpperCase) : UpperCase[j] = c
IsCased(c) == IsLower(c) \/ IsUpper(c)

ToUpper(c) == IF IsLower(c) THEN UpperCase[IndexIn(c, LowerCase)] ELSE c
ToLower(c) == IF IsUpper(c) THEN LowerCase[IndexIn(c, UpperCase)] ELSE c

\* k.replace("_", " ")
ReplaceUnderscore(k) ==
    [j \in 1..Len(k) |-> IF k[j] = "_" THEN " " ELSE k[j]]

\* str.title(): a cased character is upper-cased when it follows an uncased
\* one (or starts the string) and lower-cased otherwise.
Title(k) ==
    [j \in 1..Len(k) |->
        IF j = 1 \/ ~IsCased(k[j - 1]) THEN ToUpper(k[j]) ELSE ToLower(k[j])]

\* name=k.replace("_", " ").title()  (l.167)
FieldName(k) == Title(ReplaceUnderscore(k))

(* --------------------------- start time -------------------------------- *)

StartTimes == {"2024-05-01T12:00:00Z", "2024-05-01", "not-a-date"}

\* meta["gameStartTime"].rstrip("Z")
RstripZ(s) ==
    IF s = "2024-05-01T12:00:00Z" THEN "2024-05-01T12:00:00" ELSE s

\* The strings datetime.fromisoformat accepts, with their
\* strftime('%Y-%m-%d %H:%M:%S') rendering.
IsoTable ==
    "2024-05-01T12:00:00" :> "2024-05-01 12:00:00" @@
    "2024-05-01" :> "2024-05-01 00:00:00"

IsIsoFormat(s) == s \in DOMAIN IsoTable

(* ------------------ what the Riot API holds (the world) ---------------- *)

Procs == {"a", "b"}

Alice == [game_name |-> "Alice", tag_line |-> "1234"]
Bob == [game_name |-> "Bob", tag_line |-> "42"]
NoHandle == [game_name |-> "", tag_line |-> ""]
Handles == {Alice, Bob}

Puuids == {"P1", "P2"}
MatchIds == {"M1", "M2"}

\* /riot/account/v1/accounts/by-riot-id/{game_name}/{tag_line}
Accounts == [h \in Handles |-> IF h = Alice THEN "P1" ELSE "P2"]

\* /val/match/v1/matchlists/by-puuid/{puuid}?queue=competitive&count=1
History == [p \in Puuids |-> IF p = "P1" THEN "M1" ELSE "M2"]

kKills == <<"k","i","l","l","s">>
kDeaths == <<"d","e","a","t","h","s">>
kAssists == <<"a","s","s","i","s","t","s">>
kWin == <<"w","i","n">>
kHeadShots == <<"h","e","a","d","_","s","h","o","t","s">>
kHeadShotsSpaced == <<"h","e","a","d"," ","s","h","o","t","s">>
kAgent == <<"a","g","e","n","t">>

Entry(k, v) == [k |-> k, v |-> v]

\* The "stats" objects a participant may carry, in the order json.loads keeps.
StatsSet ==
    { <<Entry(kKills, JNum(10)), Entry(kDeaths, JNum(5)), Entry(kWin, JBool(TRUE))>>,
      <<Entry(kKills, JNum(3)), Entry(kDeaths, JNum(10)), Entry(kAssists, JNum(2)),
        Entry(kWin, JBool(FALSE))>>,
      <<Entry(kWin, JNum(1)), Entry(kAgent, JStr("Jett"))>>,
      <<Entry(kHeadShots, JNum(4)), Entry(kWin, JBool(FALSE)),
        Entry(kHeadShotsSpaced, JNum(1))>>,
      <<Entry(kWin, JBool(TRUE))>>,
      <<Entry(kKills, JNum(7))>> }

StatsA == <<Entry(kKills, JNum(10)), Entry(kDeaths, JNum(5)), Entry(kWin, JBool(TRUE))>>
StatsB ==
    <<Entry(kKills, JNum(3)), Entry(kDeaths, JNum(10)), Entry(kAssists, JNum(2)),
      Entry(kWin, JBool(FALSE))>>

Player(p, stats) == [puuid |-> p, stats |-> stats]

\* match["players"]["all_players"]
PlayerLists ==
    { <<>>, <<Player("P3", StatsA)>>,
      <<Player("P1", StatsA), Player("P1", StatsB)>>,
      <<Player("P2", StatsB), Player("P3", StatsA), Player("P2", StatsA)>> }
    \cup { <<Player("P3", StatsB), Player("P1", s), Player("P2", StatsB)>> : s \in StatsSet }
    \cup { <<Player("P2", s), Player("P1", StatsA)>> : s \in StatsSet }

\* shape: which of the keys the pipeline indexes are present in the JSON object.
MatchShapes == {"ok", "noplayers", "nometadata"}

Match(shape, players, time) ==
    [shape |-> shape, all_players |-> players, gameStartTime |-> time,
     mapName |-> "Ascent"]

NoMatch == [shape |-> "none", all_players |-> <<>>, gameStartTime |-> "", mapName |-> ""]

GoodMatch ==
    Match("ok", <<Player("P3", StatsB), Player("P1", StatsA), Player("P2", StatsB)>>,
          "2024-05-01T12:00:00Z")

MatchRecords ==
    { Match("ok", ps, t) : ps \in PlayerLists, t \in StartTimes }
    \cup { Match("noplayers", <<>>, "2024-05-01"),
           Match("nometadata", <<Player("P1", StatsA), Player("P2", StatsB)>>, ""),
           Match("nometadata", <<>>, "") }

\* The records the two-invocation specification draws from.
PairRecords ==
    { GoodMatch,
      Match("ok", <<Player("P2", StatsA), Player("P1", StatsB)>>, "not-a-date"),
      Match("ok", <<Player("P1", StatsB)>>, "2024-05-01") }

Tiers == (0 - TierSlack)..(25 + TierSlack)

\* The stored match of an id, the stored tier of a player: what a request for
\* an id the service does not know (never issued by the code) would carry.
MatchOf(db, match_id) ==
    IF match_id \in DOMAIN db.matches THEN db.matches[match_id] ELSE NoMatch

TierOf(db, puuid) ==
    IF puuid \in DOMAIN db.tiers THEN db.tiers[puuid] ELSE 0

MatchIdOf(db, puuid) ==
    IF puuid \in DOMAIN db.history THEN db.history[puuid] ELSE "M0"

PuuidOf(db, handle) ==
    IF handle \in DOMAIN db.accounts THEN db.accounts[handle] ELSE "P0"

(* ------------------------------ replies -------------------------------- *)

ErrStatuses == {404, 503}

\* session.get raised before any response arrived (no status).
TransportFail == [status |-> 0, body |-> "unreachable"]

Replies(bodies) ==
    {TransportFail}
    \cup { [status |-> s, body |-> "error"] : s \in ErrStatuses }
    \cup { [status |-> 200, body |-> b] : b \in bodies }

\* 200 bodies: "ok" is the well-formed object built from the world, "nofield"
\* a JSON object without the key the helper indexes, "badjson" a body that
\* json.loads rejects; the history adds "empty" ({"history": []}) and
\* "nohistory" (an object without "history").
PuuidBodies == {"ok", "nofield", "badjson"}
HistoryBodies == {"ok", "empty", "nohistory", "nofield", "badjson"}
MatchBodies == {"ok", "badjson"}
RankBodies == {"ok", "nofield", "badjson"}

(* ----------------------------- exceptions ------------------------------ *)

Exc(type, status, msg) == [type |-> type, status |-> status, msg |-> msg]
NoExc == Exc("none", 0, "")

NoMatchesText == "No competitive matches found for this player."

\* The class hierarchy the except clauses test against.
Bases ==
    "ClientResponseError" :> {"ClientResponseError", "ClientError", "Exception"} @@
    "ClientConnectionError" :> {"ClientConnectionError", "ClientError", "Exception"} @@
    "JSONDecodeError" :> {"JSONDecodeError", "ValueError", "Exception"} @@
    "ValueError" :> {"ValueError", "Exception"} @@
    "KeyError" :> {"KeyError", "LookupError", "Exception"} @@
    "IndexError" :> {"IndexError", "LookupError", "Exception"} @@
    "StopIteration" :> {"StopIteration", "Exception"} @@
    "HTTPException" :> {"HTTPException", "DiscordException", "Exception"}

IsInstance(e, cls) == e.type \in DOMAIN Bases /\ cls \in Bases[e.type]

\* A raise_for_status that lets every status through.
RaiseForStatusNever(r) == NoExc

\* resp.raise_for_status(): ClientResponseError for a status of 400 and above.
RaiseForStatus(r) ==
    IF r.status >= 400 THEN Exc("ClientResponseError", r.status, "") ELSE NoExc

\* session.get, raise_for_status and resp.json() of one helper: the first
\* exception they raise on reply r, NoExc when the body is decoded.
FetchExc(r) ==
    IF r = TransportFail THEN Exc("ClientConnectionError", 0, "Cannot connect to host")
    ELSE IF RaiseForStatus(r) # NoExc THEN RaiseForStatus(r)
    ELSE IF r.body = "badjson" THEN Exc("JSONDecodeError", 0, "Expecting value")
    ELSE NoExc

(* ------------------------ follow-up messages --------------------------- *)

NoEmbed ==
    [title |-> "", result |-> "", mapName |-> "", date |-> "", color |-> 0,
     fields |-> <<>>]

Msg(kind, status, text, embed) ==
    [kind |-> kind, status |-> status, text |-> text, embed |-> embed]

\* l.174-176
StatusMsg(status) ==
    Msg("status", status,
        "Riot API error (status " \o ToString(status)
            \o "). Check console logs for details.",
        NoEmbed)

\* l.178: the exception's own text behind a warning sign
WarnMsg(e) == Msg("warn", 0, e.msg, NoEmbed)

\* l.181-183
GenericMsg ==
    Msg("generic", 0,
        "Something went wrong. Double-check your .env and region, then try again.",
        NoEmbed)

\* l.171
EmbedMsg(embed) == Msg("embed", 0, "", embed)

(* --------------------- one frame of one invocation ---------------------- *)

\* The locals of one lastmatch coroutine, with the calls it issued, the
\* replies it received and the follow-up messages it sent.
NewFrame(handle) ==
    [pc |-> "idle", handle |-> handle, puuid |-> "", match_id |-> "",
     match |-> NoMatch, rank |-> "", calls |-> <<>>, replies |-> <<>>,
     sent |-> <<>>, escaped |-> FALSE]

Call(fn, arg) == [fn |-> fn, arg |-> arg]

Issue(f, fn, arg, r) ==
    [f EXCEPT !.calls = Append(@, Call(fn, arg)), !.replies = Append(@, r)]

\* Clauses that leave StopIteration and KeyError to the caller.
ClassifyNarrow(e) ==
    IF IsInstance(e, "ClientResponseError") THEN "status"
    ELSE IF IsInstance(e, "ValueError") THEN "warn"
    ELSE IF IsInstance(e, "ClientError") \/ IsInstance(e, "DiscordException") THEN "generic"
    ELSE "escape"

\* Clauses that report a missing key as a provider error.
ClassifyKeyAsStatus(e) ==
    IF IsInstance(e, "ClientResponseError") \/ IsInstance(e, "LookupError") THEN "status"
    ELSE IF IsInstance(e, "ValueError") THEN "warn"
    ELSE IF IsInstance(e, "Exception") THEN "generic"
    ELSE "escape"

\* The except clauses of lastmatch, in order: the first that matches wins.
Classify(e) ==
    IF IsInstance(e, "ClientResponseError") THEN "status"
    ELSE IF IsInstance(e, "ValueError") THEN "warn"
    ELSE IF IsInstance(e, "Exception") THEN "generic"
    ELSE "escape"

\* The handler run for exception e: one follow-up message, then the
\* coroutine returns.
Except(f, e) ==
    LET c == Classify(e)
    IN  IF c = "escape"
        THEN [f EXCEPT !.pc = "done", !.escaped = TRUE]
        ELSE [f EXCEPT !.pc = "done",
                       !.sent = Append(@, CASE c = "status" -> StatusMsg(e.status)
                                            [] c = "warn" -> WarnMsg(e)
                                            [] OTHER -> GenericMsg)]

(* ---------------------------- the helpers ------------------------------ *)

HandleKey(h) == h.game_name \o "/" \o h.tag_line

\* get_puuid (l.71-87)
PuuidExc(r) ==
    IF FetchExc(r) # NoExc THEN FetchExc(r)
    ELSE IF r.body # "ok" THEN Exc("KeyError", 0, "'puuid'")
    ELSE NoExc

CallGetPuuid(db, f, r) ==
    LET g == Issue(f, "get_puuid", HandleKey(f.handle), r)
    IN  IF PuuidExc(r) # NoExc THEN Except(g, PuuidExc(r))
        ELSE [g EXCEPT !.pc = "have_puuid", !.puuid = PuuidOf(db, f.handle)]

\* A helper that indexes history[0] without testing for an empty list.
HistoryExcUnchecked(r) ==
    IF FetchExc(r) # NoExc THEN FetchExc(r)
    ELSE IF r.body \in {"empty", "nohistory"}
         THEN Exc("IndexError", 0, "list index out of range")
    ELSE IF r.body # "ok" THEN Exc("KeyError", 0, "'matchId'")
    ELSE NoExc

\* get_last_competitive_match_id (l.90-107)
HistoryExc(r) ==
    IF FetchExc(r) # NoExc THEN FetchExc(r)
    ELSE IF r.body \in {"empty", "nohistory"} THEN Exc("ValueError", 0, NoMatchesText)
    ELSE IF r.body # "ok" THEN Exc("KeyError", 0, "'matchId'")
    ELSE NoExc

CallGetLastCompetitiveMatchId(db, f, r) ==
    LET g == Issue(f, "get_last_competitive_match_id", f.puuid, r)
    IN  IF HistoryExc(r) # NoExc THEN Except(g, HistoryExc(r))
        ELSE [g EXCEPT !.pc = "have_match_id", !.match_id = MatchIdOf(db, f.puuid)]

\* get_match_details (l.110-116)
CallGetMatchDetails(db, f, r) ==
    LET g == Issue(f, "get_match_details", f.match_id, r)
    IN  IF FetchExc(r) # NoExc THEN Except(g, FetchExc(r))
        ELSE [g EXCEPT !.pc = "have_match", !.match = MatchOf(db, f.match_id)]

\* A rank call keyed by the match id instead of the player id.
RankArgMatchId(f) == f.match_id

\* The argument of get_current_rank (l.147)
RankArg(f) == f.puuid

\* data.get("competitiveTier", 0)
CompetitiveTier(db, puuid, r) ==
    IF r.body = "ok" THEN TierOf(db, puuid) ELSE 0

\* get_current_rank (l.119-127)
CallGetCurrentRank(db, f, r) ==
    LET g == Issue(f, "get_current_rank", RankArg(f), r)
    IN  IF FetchExc(r) # NoExc THEN Except(g, FetchExc(r))
        ELSE [g EXCEPT !.pc = "have_rank",
                       !.rank = TierLabel(CompetitiveTier(db, RankArg(f), r))]

(* ------------------ aggregation and rendering (l.149-171) -------------- *)

\* The first participant of the list, whoever it is.
MineFirst(f) ==
    IF f.match.all_players = <<>> THEN <<>> ELSE <<f.match.all_players[1]>>

\* (p for p in match["players"]["all_players"] if p["puuid"] == puuid)
Mine(f) == SelectSeq(f.match.all_players, LAMBDA p : p.puuid = f.puuid)

HasKey(stats, k) == \E j \in 1..Len(stats) : stats[j].k = k

Get(stats, k) == stats[CHOOSE j \in 1..Len(stats) : stats[j].k = k].v

\* A loop that renders every entry, the win flag included.
ShownEntriesAll(stats) == stats

\* for k, v in stats.items(): if k == "win": continue  (l.164-166)
ShownEntries(stats) == SelectSeq(stats, LAMBDA e : e.k # kWin)

\* embed.add_field(name=..., value=str(v))  (l.167)
Fields(stats) ==
    [j \in 1..Len(ShownEntries(stats)) |->
        [name |-> FieldName(ShownEntries(stats)[j].k),
         value |-> Str(ShownEntries(stats)[j].v)]]

\* The first exception l.149-162 raise on the frame, NoExc when the embed
\* is built.
AggregateExc(f) ==
    IF f.match.shape \notin {"ok", "nometadata"} THEN Exc("KeyError", 0, "'players'")
    ELSE IF Mine(f) = <<>> THEN Exc("StopIteration", 0, "")
    ELSE IF f.match.shape = "nometadata" THEN Exc("KeyError", 0, "'metadata'")
    ELSE IF ~IsIsoFormat(RstripZ(f.match.gameStartTime))
         THEN Exc("ValueError", 0, "Invalid isoformat string")
    ELSE IF ~HasKey(Head(Mine(f)).stats, kWin) THEN Exc("KeyError", 0, "'win'")
    ELSE NoExc

\* discord.Embed(...) of l.154-167; the title's dash is written " - ".
Embed(f) ==
    LET stats == Head(Mine(f)).stats
        won == Truthy(Get(stats, kWin))
    IN  [title |-> f.handle.game_name \o "#" \o f.handle.tag_line \o " - " \o f.rank,
         result |-> IF won THEN "Win" ELSE "Loss",
         mapName |-> f.match.mapName,
         date |-> IsoTable[RstripZ(f.match.gameStartTime)],
         color |-> IF won THEN 65280 ELSE 16711680,
         fields |-> Fields(stats)]

\* What Discord answers to followup.send(embed=embed).
DiscordReplies == {[status |-> 200, body |-> "message"], [status |-> 400, body |-> "error"]}

\* l.149-171, and the except clause when one of them raises.
Respond(f, r) ==
    IF AggregateExc(f) # NoExc THEN Except(f, AggregateExc(f))
    ELSE LET g == [f EXCEPT !.replies = Append(@, r)]
         IN  IF r.status >= 400 THEN Except(g, Exc("HTTPException", r.status, ""))
             ELSE [g EXCEPT !.pc = "done", !.sent = Append(@, EmbedMsg(Embed(f)))]

(* ------------------------------ actions -------------------------------- *)

Other(i) == CHOOSE j \in Procs : j # i

\* Locals kept in one module-level slot: the player id is whatever the other
\* invocation last stored.
OwnFrameShared(i) == [inv[i] EXCEPT !.puuid = inv[Other(i)].puuid]

\* The locals of invocation i.
OwnFrame(i) == inv[i]

\* await interaction.response.defer()  (l.141)
Invoke(i) ==
    /\ inv[i].pc = "idle"
    /\ inv[i].handle # NoHandle
    /\ inv' = [inv EXCEPT ![i].pc = "deferred"]
    /\ UNCHANGED riot

\* l.144
GetPuuid(i) ==
    /\ inv[i].pc = "deferred"
    /\ \E r \in Replies(PuuidBodies) :
          inv' = [inv EXCEPT ![i] = CallGetPuuid(riot, OwnFrame(i), r)]
    /\ UNCHANGED riot

\* l.145
GetLastCompetitiveMatchId(i) ==
    /\ inv[i].pc = "have_puuid"
    /\ \E r \in Replies(HistoryBodies) :
          inv' = [inv EXCEPT ![i] = CallGetLastCompetitiveMatchId(riot, OwnFrame(i), r)]
    /\ UNCHANGED riot

\* l.146
GetMatchDetails(i) ==
    /\ inv[i].pc = "have_match_id"
    /\ \E r \in Replies(MatchBodies) :
          inv' = [inv EXCEPT ![i] = CallGetMatchDetails(riot, OwnFrame(i), r)]
    /\ UNCHANGED riot

\* l.147
GetCurrentRank(i) ==
    /\ inv[i].pc = "have_match"
    /\ \E r \in Replies(RankBodies) :
          inv' = [inv EXCEPT ![i] = CallGetCurrentRank(riot, OwnFrame(i), r)]
    /\ UNCHANGED riot

\* l.149-171
Render(i) ==
    /\ inv[i].pc = "have_rank"
    /\ \E r \in DiscordReplies :
          inv' = [inv EXCEPT ![i] = Respond(OwnFrame(i), r)]
    /\ UNCHANGED riot

Next ==
    \E i \in Procs :
        \/ Invoke(i)
        \/ GetPuuid(i)
        \/ GetLastCompetitiveMatchId(i)
        \/ GetMatchDetails(i)
        \/ GetCurrentRank(i)
        \/ Render(i)

World(matches, tiers) ==
    [accounts |-> Accounts, history |-> History, matches |-> matches, tiers |-> tiers]

\* One command: any handle, any stored match and tier for its player.
Init ==
    \E h \in Handles, m \in MatchRecords, t \in Tiers :
        /\ inv = [i \in Procs |-> IF i = "a" THEN NewFrame(h) ELSE NewFrame(NoHandle)]
        /\ riot = World([id \in MatchIds |-> IF id = History[Accounts[h]] THEN m ELSE GoodMatch],
                        [p \in Puuids |-> IF p = Accounts[h] THEN t ELSE 0])

Spec == Init /\ [][Next]_vars

\* Two commands in flight at once, each with any handle.
InitPair ==
    \E ha \in Handles, hb \in Handles, m1 \in PairRecords, m2 \in PairRecords :
        /\ inv = [i \in Procs |-> IF i = "a" THEN NewFrame(ha) ELSE NewFrame(hb)]
        /\ riot = World([id \in MatchIds |-> IF id = "M1" THEN m1 ELSE m2],
                        [p \in Puuids |-> IF p = "P1" THEN 10 ELSE 25 + TierSlack])

SpecPair == InitPair /\ [][Next]_vars

(* ----------------- one invocation run on its own ----------------------- *)

\* The step the coroutine takes from f on receiving reply r.
Step(db, f, r) ==
    CASE f.pc = "deferred" -> CallGetPuuid(db, f, r)
      [] f.pc = "have_puuid" -> CallGetLastCompetitiveMatchId(db, f, r)
      [] f.pc = "have_match_id" -> CallGetMatchDetails(db, f, r)
      [] f.pc = "have_match" -> CallGetCurrentRank(db, f, r)
      [] f.pc = "have_rank" -> Respond(f, r)
      [] OTHER -> f

RECURSIVE Replay(_, _, _)
\* lastmatch run from f with nothing else in flight, fed the replies rs in order.
Replay(db, f, rs) ==
    IF f.pc = "done" THEN f
    ELSE IF rs = <<>>
         THEN IF f.pc = "have_rank" /\ AggregateExc(f) # NoExc
              THEN Respond(f, TransportFail) ELSE f
    ELSE Replay(db, Step(db, f, Head(rs)), Tail(rs))

\* The whole command for handle h, alone, on replies rs.
Solo(db, h, rs) == Replay(db, [NewFrame(h) EXCEPT !.pc = "deferred"], rs)

(* ------------------------------ claims --------------------------------- *)

Done(i) == inv[i].pc = "done"

Ok200 == [status |-> 200, body |-> "ok"]

CallOrder ==
    <<"get_puuid", "get_last_competitive_match_id", "get_match_details",
      "get_current_rank">>

Issued(i, fn) == \E n \in 1..Len(inv[i].calls) : inv[i].calls[n].fn = fn

\* The reply to the n-th Riot call of invocation i carried status s.
Answered(i, n, s) ==
    /\ n <= Len(inv[i].calls)
    /\ inv[i].replies[n].status = s

\* All four helpers returned a value.
AllFourReturned(i) ==
    /\ Len(inv[i].calls) = 4
    /\ \A n \in 1..4 : inv[i].replies[n].status = 200 /\ inv[i].replies[n].body # "badjson"

\* The participant line 149 locates.
Located(i) ==
    Head(SelectSeq(inv[i].match.all_players, LAMBDA p : p.puuid = inv[i].puuid))

Summarised(i) ==
    Done(i) /\ Len(inv[i].sent) = 1 /\ inv[i].sent[1].kind = "embed"

Thm_C2 ==
    \A i \in Procs :
        (/\ Len(inv[i].calls) >= 2
         /\ inv[i].replies[1] = Ok200
         /\ inv[i].replies[2] = [status |-> 200, body |-> "empty"])
        => /\ Done(i)
           /\ inv[i].sent = <<Msg("warn", 0, NoMatchesText, NoEmbed)>>
           /\ ~Issued(i, "get_match_details")
           /\ Len(inv[i].calls) = 2

Wit_C2 ==
    \E i \in Procs :
        /\ Len(inv[i].calls) = 2
        /\ inv[i].replies[2] = [status |-> 200, body |-> "empty"]
        /\ Len(inv[i].sent) = 1 /\ inv[i].sent[1].text = NoMatchesText

Divisions ==
    <<"Iron", "Bronze", "Silver", "Gold", "Platinum", "Diamond", "Ascendant",
      "Immortal">>

\* The label the rank ladder gives tier t: three steps per division between
\* Unrated and Radiant, "Unknown" off the ladder.
LadderLabel(t) ==
    IF t = 0 THEN "Unrated"
    ELSE IF t = 25 THEN "Radiant"
    ELSE IF t \in 1..24
         THEN Divisions[((t - 1) \div 3) + 1] \o " " \o ToString(((t - 1) % 3) + 1)
    ELSE "Unknown"

\* C3: whenever the rank call returns tier t, the label is the table entry of
\* t for 0 <= t <= 25 and "Unknown" for every other integer; the helper
\* returns that label (rank is assigned) instead of raising.
Thm_C3 ==
    \A i \in Procs :
        (Len(inv[i].calls) = 4 /\ inv[i].replies[4] = Ok200)
        => LET t == riot.tiers[inv[i].puuid]
           IN  /\ inv[i].rank = LadderLabel(t)
               /\ (t \in 0..25 <=> inv[i].rank # "Unknown")
               /\ (t = 10 => inv[i].rank = "Gold 1")

Wit_C3 ==
    \E i \in Procs :
        /\ Len(inv[i].calls) = 4 /\ inv[i].replies[4] = Ok200
        /\ riot.tiers[inv[i].puuid] = 25 + TierSlack
        /\ inv[i].rank = "Unknown"
        /\ inv[i].pc = "have_rank"

\* C4: when all four calls succeed and no participant of the match carries
\* the resolved player id, the invocation ends with the generic failure
\* message and nothing else.
Thm_C4 ==
    \A i \in Procs :
        (/\ Done(i)
         /\ AllFourReturned(i)
         /\ \A n \in 1..Len(inv[i].match.all_players) :
                inv[i].match.all_players[n].puuid # inv[i].puuid)
        => inv[i].sent =
             <<Msg("generic", 0,
                   "Something went wrong. Double-check your .env and region, then try again.",
                   NoEmbed)>>

Wit_C4 ==
    \E i \in Procs :
        /\ Done(i) /\ AllFourReturned(i)
        /\ inv[i].match.shape = "ok"
        /\ Len(inv[i].match.all_players) = 1
        /\ inv[i].match.all_players[1].puuid = "P3"
        /\ Len(inv[i].sent) = 1 /\ inv[i].sent[1].kind = "generic"

\* The keys of a stats object, in order.
Keys(stats) == [j \in 1..Len(stats) |-> stats[j].k]

Names(fields) == [j \in 1..Len(fields) |-> fields[j].name]

\* C5 as stated: on a successful run the rendered fields carry exactly the
\* located participant's keys other than "win", each once and unchanged, and
\* the result is the participant's win value.
Orig_C5 ==
    \A i \in Procs :
        Summarised(i) =>
            LET stats == Located(i).stats
                e == inv[i].sent[1].embed
            IN  /\ Names(e.fields) = Keys(SelectSeq(stats, LAMBDA x : x.k # kWin))
                /\ (e.result = "Win") <=> Truthy(Get(stats, kWin))

\* C5, amended: on a successful run the embed has one field per key of the
\* located participant other than "win", in the participant's order, named
\* k.replace("_", " ").title() with value str(v) (so two keys may share a
\* name); the result is "Win" when the win value is truthy, "Loss" otherwise.
Thm_C5 ==
    \A i \in Procs :
        Summarised(i) =>
            LET stats == Located(i).stats
                kept == SelectSeq(stats, LAMBDA x : x.k # kWin)
                e == inv[i].sent[1].embed
            IN  /\ Len(e.fields) = Len(kept)
                /\ \A j \in 1..Len(kept) :
                      /\ e.fields[j].name = Title(ReplaceUnderscore(kept[j].k))
                      /\ e.fields[j].value = Str(kept[j].v)
                /\ e.result = (IF Truthy(Get(stats, kWin)) THEN "Win" ELSE "Loss")

Wit_C5 ==
    \E i \in Procs :
        /\ Summarised(i)
        /\ Located(i).stats = StatsA
        /\ inv[i].sent[1].embed.fields =
             << [name |-> <<"K","i","l","l","s">>, value |-> "10"],
                [name |-> <<"D","e","a","t","h","s">>, value |-> "5"] >>
        /\ inv[i].sent[1].embed.result = "Win"

Orig_C7 ==
    \A i \in Procs :
        (Len(inv[i].calls) >= 1 /\ inv[i].replies[1] = [status |-> 200, body |-> "nofield"])
        => Len(inv[i].sent) = 1 /\ inv[i].sent[1].kind = "status"

\* C7, amended: a 200 reply to the identity call whose JSON body lacks the
\* identifier ends the invocation with the generic failure message, not the
\* provider-status message, and no further call is issued.
Thm_C7 ==
    \A i \in Procs :
        (Len(inv[i].calls) >= 1 /\ inv[i].replies[1] = [status |-> 200, body |-> "nofield"])
        => /\ Done(i)
           /\ Len(inv[i].sent) = 1
           /\ inv[i].sent[1].kind = "generic"
           /\ Len(inv[i].calls) = 1

Wit_C7 ==
    \E i \in Procs :
        /\ Done(i)
        /\ Len(inv[i].calls) = 1
        /\ inv[i].replies[1] = [status |-> 200, body |-> "nofield"]
        /\ Len(inv[i].sent) = 1

\* C8: with two invocations interleaved at their network calls, what each
\* has sent when it finishes is what the same command sends when run alone
\* on the same handle and the same replies.
Thm_C8 ==
    \A i \in Procs :
        Done(i) =>
            /\ inv[i].sent = Solo(riot, inv[i].handle, inv[i].replies).sent
            /\ inv[i].calls = Solo(riot, inv[i].handle, inv[i].replies).calls

Wit_C8 ==
    /\ Done("a") /\ Done("b")
    /\ inv["a"].handle # inv["b"].handle
    /\ inv["a"].sent[1].kind = "status"
    /\ inv["b"].sent[1].kind = "embed"

\* C9: the calls of one invocation are a prefix of get_puuid, history, match
\* details, rank, each issued once; the history and rank calls carry the id
\* the identity call returned and the match-detail call the match id the
\* history call returned, each issued only after that call succeeded.
Thm_C9 ==
    \A i \in Procs :
        LET c == inv[i].calls
            r == inv[i].replies
        IN  /\ Len(c) <= 4
            /\ \A n \in 1..Len(c) : c[n].fn = CallOrder[n]
            /\ Len(c) >= 2 =>
                  r[1] = Ok200 /\ c[2].arg = riot.accounts[inv[i].handle]
            /\ Len(c) >= 3 =>
                  r[2] = Ok200 /\ c[3].arg = riot.history[riot.accounts[inv[i].handle]]
            /\ Len(c) >= 4 =>
                  r[1] = Ok200 /\ c[4].arg = riot.accounts[inv[i].handle]

Wit_C9 ==
    \E i \in Procs :
        /\ Len(inv[i].calls) = 4
        /\ inv[i].calls[4] = Call("get_current_rank", "P2")
        /\ inv[i].calls[3] = Call("get_match_details", "M2")

\* C10 as stated: the warning-sign message is sent if and only if the
\* history call succeeded with an empty history list.
Orig_C10 ==
    \A i \in Procs :
        (Len(inv[i].sent) >= 1 /\ inv[i].sent[1].kind = "warn")
        <=> (/\ Len(inv[i].calls) >= 2
             /\ inv[i].replies[2] = [status |-> 200, body |-> "empty"])

====
